---- MODULE Spec2Model ----
(***************************************************************************)
(* Model of rsbuild's dev-server start-up (packages/shared/src/            *)
(* devServer.ts) and of the CLI init / restart path (packages/core/src/    *)
(* cli/commands.ts).                                                       *)
(*                                                                         *)
(* Spec     : one run of startDevServer, one action per continuation of    *)
(*            the async function (the code between two awaits is atomic).  *)
(* SpecInit : the CLI's init() called first by a command handler and then  *)
(*            again by every restart.                                      *)
(***************************************************************************)
EXTENDS Integers, Sequences, FiniteSets, TLC

\* ------------------------------------------------------------------ bounds
\* ports are DEFAULT_PORT .. MaxPort
MaxPort == 3001
\* callbacks registered on each of the two hooks: 0 .. MaxCallbacks
MaxCallbacks == 2
\* restarts (watched-file changes) followed in one run of the CLI
MaxRestarts == 2
\* calls of setupServerHooks on one compiler
MaxSetups == 2
\* compiler events fired
MaxEvents == 2
\* length of a compiler's list of targets
MaxTargets == 2

\* --------------------------------------------------------------- constants
Undef == "undefined"
DEFAULT_PORT == 3000
DEFAULT_DEV_HOST == "0.0.0.0"

Ports == DEFAULT_PORT .. MaxPort
Hosts == {"localhost", "192.168.0.2"}
Servers == {"serverA", "serverB"}
\* the values of the printURLs option: a boolean or a function
PrintURLsFns == {"fnOnlyLocal", "fnCustom", "fnNotArray"}
PrintURLsOpts == {"true", "false"} \cup PrintURLsFns

VARIABLES
  pc,          \* position of the startDevServer run
  nodeEnv,     \* process.env.NODE_ENV ("" when unset)
  occupied,    \* ports some other process listens on
  args,        \* the arguments of the run
  hooks,       \* [before, after |-> number of registered callbacks]
  hookIdx,     \* callbacks of the hook call in progress that have completed
  port,        \* const port (0 before getPort resolved)
  ctxDevServer,\* options.context.devServer (<<>> while not written)
  urls,        \* let urls (tagged: an array of {label,url} or another value)
  server,      \* const server
  urlArgs,     \* what getAddressUrls was called with
  factoryArgs, \* the port createDevServer was called with
  listenArgs,  \* what server.listen was called with
  afterPayload,\* payloads onAfterStartDevServerHook.call was given
  printed,     \* what logger.log received
  promise,     \* the promise startDevServer returned: state, value / error
  unhandled,   \* rejections of the listen callback's own promise
  log          \* calls and completions, in order

devVars == <<pc, nodeEnv, occupied, args, hooks, hookIdx, port, ctxDevServer,
             urls, server, urlArgs, factoryArgs, listenArgs, afterPayload,
             printed, promise, unhandled, log>>

VARIABLES
  proc,        \* the CLI process: "idle", "running", "exited", "crashed"
  command,     \* process.argv[2]
  commonOpts,  \* let commonOpts (commands.ts 32)
  cliOpts,     \* the options the command handler was given (<<>> before)
  disk,        \* the env files and the config file on disk
  watched,     \* the file paths the restart watcher watches
  cleaners,    \* callbacks registered with onBeforeRestartServer
  logged,      \* what logger.error received
  lastInit,    \* the latest call of init: its arguments and what it did
  lastOp,      \* how the command's operation and the output directory were
  serverUp,    \* a dev server started by the latest (re)start is running
  restarts     \* restarts so far

cliVars == <<proc, command, commonOpts, cliOpts, disk, watched, cleaners,
             logged, lastInit, lastOp, serverUp, restarts>>

VARIABLES
  mergeIn,     \* the arguments of a call of getDevServerOptions
  devConfig    \* what it returned (<<>> before the call)

mergeVars == <<mergeIn, devConfig>>

VARIABLES
  compiler,    \* the compiler: its name and its options.target
  taps,        \* compiler.hooks: the callbacks tapped on each event
  calls,       \* the callbacks invoked so far, with their argument
  setups,      \* calls of setupServerHooks so far
  fired,       \* the compiler events fired so far, <<event, stats>>
  clientResult \* what isClientCompiler returned (<<>> before the call)

compVars == <<compiler, taps, calls, setups, fired, clientResult>>

utilVars == <<mergeVars, compVars>>

vars == <<devVars, cliVars, utilVars>>

\* ----------------------------------------------------------------- helpers
Array(items) == [kind |-> "array", items |-> items]
NotArray == [kind |-> "other", items |-> <<>>]
IsArray(v) == v.kind = "array"
isFunction(v) == v \in PrintURLsFns

Pending == [state |-> "pending"]
Rejected(e) == [state |-> "rejected", error |-> e]
Resolved(v) == [state |-> "resolved", value |-> v]

\* first position of event e in the log, 0 when absent
RECURSIVE IndexFrom(_, _, _)
IndexFrom(s, e, i) ==
  IF i > Len(s) THEN 0
  ELSE IF s[i] = e THEN i ELSE IndexFrom(s, e, i + 1)
Idx(e) == IndexFrom(log, e, 1)
Has(e) == Idx(e) > 0
RECURSIVE CountFrom(_, _, _)
CountFrom(s, e, i) ==
  IF i > Len(s) THEN 0
  ELSE (IF s[i] = e THEN 1 ELSE 0) + CountFrom(s, e, i + 1)
Count(e) == CountFrom(log, e, 1)

RECURSIVE SelectLocal(_)
SelectLocal(s) ==
  IF s = <<>> THEN <<>>
  ELSE IF Head(s).label = "Local" THEN <<Head(s)>> \o SelectLocal(Tail(s))
       ELSE SelectLocal(Tail(s))

\* port.ts getPort: the requested port when free; when occupied, a failure
\* under strictPort and otherwise the first free port above it; 0 = rejects
RECURSIVE FirstFree(_, _)
FirstFree(p, occ) ==
  IF p > MaxPort THEN 0
  ELSE IF p \notin occ THEN p ELSE FirstFree(p + 1, occ)
getPort(requested, strictPort, occ) ==
  IF requested \notin occ THEN requested
  ELSE IF strictPort THEN 0
  ELSE FirstFree(requested + 1, occ)

\* url.ts getAddressUrls: a Local entry, and Network entries when the host
\* is not restricted to one address
Url(protocol, host, p) == <<protocol, host, p>>
getAddressUrls(protocol, p, host) ==
  IF host # Undef /\ host # DEFAULT_DEV_HOST
  THEN <<[label |-> IF host = "localhost" THEN "Local" ELSE "Network",
          url |-> Url(protocol, host, p)]>>
  ELSE <<[label |-> "Local", url |-> Url(protocol, "localhost", p)],
         [label |-> "Network", url |-> Url(protocol, "192.168.0.2", p)]>>

\* the caller's printURLs function applied to the computed list
CallPrintURLs(fn, list) ==
  CASE fn = "fnOnlyLocal" -> Array(SelectLocal(list))
    [] fn = "fnCustom" -> Array(<<[label |-> "Custom",
                                   url |-> Url("http", "example.test", 80)]>>)
    [] fn = "fnNotArray" -> NotArray

\* devServer.ts 34-43 printServerURLs: one line per url, label then url
printServerURLs(list) == [i \in 1 .. Len(list) |-> <<list[i].label, list[i].url>>]

\* devServer.ts 188: urls.map((item) => item.url)
UrlsOf(list) == [i \in 1 .. Len(list) |-> list[i].url]

\* -------------------------------------------------------------- CLI values
Commands == {"dev", "build", "preview", "inspect"}
\* CommonOptions (commands.ts 10-16); an absent option is Undef (port: 0)
CliOptsType == {o \in [config : {Undef, "custom.config.ts"},
                        envMode : {Undef, "staging"},
                        open : {Undef, "true"},
                        host : {Undef, "0.0.0.0"},
                        port : {0, 8080}] :
                  (o.host = Undef) <=> (o.port = 0)}
\* let commonOpts: CommonOptions = {} (commands.ts 32)
EmptyOpts == [config |-> Undef, envMode |-> Undef, open |-> Undef,
              host |-> Undef, port |-> 0]
\* the config file's content: dev.startUrl, server.host, server.port and
\* whether source.define declares the key the env files also define
ConfigContents == {[startUrl |-> Undef, host |-> Undef, port |-> 0,
                    define |-> Undef],
                   [startUrl |-> "/file", host |-> "file.host", port |-> 5000,
                    define |-> "fromConfig"]}
ConfigPaths == {"rsbuild.config.ts", "custom.config.ts"}
DiskType == [envFiles : {{".env"}, {".env", ".env.staging"}},
             hasConfig : BOOLEAN, content : ConfigContents]
NoConfig == [define |-> Undef, startUrl |-> Undef, host |-> Undef, port |-> 0]
NoInit == [called |-> FALSE, cliGiven |-> FALSE, isRestart |-> FALSE,
           fail |-> "none", outcome |-> Undef, loadEnvMode |-> <<>>,
           loadConfigArgs |-> <<>>, rsbuildConfig |-> NoConfig]
InitFailures == {"none", "loadEnv", "loadConfig", "watchFiles",
                 "createRsbuild"}

\* --------------------------------------------------- getDevServerOptions
\* a JavaScript value: a leaf <<type, text>> or a plain object with a
\* function from its own keys to values
Leaf(type, text) == [t |-> "leaf", v |-> <<type, text>>, f |-> <<>>]
Obj(fn) == [t |-> "obj", v |-> <<>>, f |-> fn]
Undefined == Leaf("undefined", "")
Bool(b) == Leaf("boolean", b)
Num(n) == Leaf("number", n)
Str(x) == Leaf("string", x)
EmptyObj == Obj(<<>>)
IsObj(x) == x.t = "obj"
\* Object.keys(x)
Keys(x) == IF IsObj(x) THEN DOMAIN x.f ELSE {}
\* Number.prototype.toString
toString(x) == Leaf("string", x.v[2])
\* a ?? b
Nullish(a, b) == IF a = Undefined THEN b ELSE a
\* a || b
OrElse(a, b) ==
  IF a = Undefined \/ a = Bool("false") THEN b ELSE a

\* devServer.ts 15 deepmerge (mergeObject): the keys of target, then every
\* own key of source: merged when target has the key and the source's value
\* is an object, otherwise the source's value as it is
RECURSIVE deepmerge(_, _)
deepmerge(target, source) ==
  Obj([k \in Keys(target) \cup Keys(source) |->
         IF k \notin Keys(source) THEN target.f[k]
         ELSE IF k \in Keys(target) /\ IsObj(source.f[k])
              THEN deepmerge(target.f[k], source.f[k])
              ELSE source.f[k]])

\* mergeChainedOptions.ts: the defaults when there are no options, else
\* mergeFn(defaults, options)
mergeChainedOptions(defaults, options) ==
  IF options = Undefined THEN defaults ELSE deepmerge(defaults, options)

\* devServer.ts 57-69: the built-in defaults
DefaultDevConfig(cfg, p) ==
  Obj([k \in {"hot", "watch", "client", "port", "liveReload",
              "devMiddleware", "https"} |->
         CASE k = "hot" -> Nullish(cfg.hmr, Bool("true"))
           [] k = "watch" -> Bool("true")
           [] k = "client" -> Obj([j \in {"port"} |-> toString(p)])
           [] k = "port" -> p
           [] k = "liveReload" -> Nullish(cfg.hmr, Bool("true"))
           [] k = "devMiddleware" ->
                Obj([j \in {"writeToDisk"} |-> Leaf("function", "writeToDisk")])
           [] k = "https" -> cfg.https])

\* devServer.ts 45-81 getDevServerOptions
getDevServerOptions(cfg, serverDev, p) ==
  mergeChainedOptions(
    deepmerge(DefaultDevConfig(cfg, p), OrElse(serverDev, EmptyObj)),
    cfg.toolsDevServer)

\* override objects: any of hot, port and client, with the given values
Overrides(hots, ports, clients) ==
  {Obj(fn) : fn \in UNION {[ks -> hots \cup ports \cup clients] :
                             ks \in SUBSET {"hot", "port", "client"}}}
ServerDevs ==
  {Undefined, Bool("true")} \cup
  {o \in Overrides({Bool("false"), Undefined}, {Num("4000")},
                    {Obj([j \in {"port"} |-> Str("9000")]),
                     Obj([j \in {"host"} |-> Str("lan")])}) :
     /\ "hot" \in Keys(o) => o.f["hot"] \in {Bool("false"), Undefined}
     /\ "port" \in Keys(o) => o.f["port"] = Num("4000")
     /\ "client" \in Keys(o) => IsObj(o.f["client"])}
ToolsDevServers ==
  {Undefined} \cup
  {o \in Overrides({Bool("true"), Undefined}, {Num("5000"), Undefined},
                    {Obj([j \in {"port"} |-> Str("9500")])}) :
     /\ "hot" \in Keys(o) => o.f["hot"] \in {Bool("true"), Undefined}
     /\ "port" \in Keys(o) => o.f["port"] \in {Num("5000"), Undefined}
     /\ "client" \in Keys(o) => IsObj(o.f["client"])}
MergeInputs ==
  [hmr : {Undefined, Bool("true"), Bool("false")},
   https : {Undefined, Bool("true")},
   toolsDevServer : ToolsDevServers,
   serverDev : ServerDevs,
   port : {Num("3000")}]
NoMergeInput == [hmr |-> Undefined, https |-> Undefined,
                 toolsDevServer |-> Undefined, serverDev |-> Undefined,
                 port |-> Num("3000")]

\* no call of getDevServerOptions is modelled
MergeIdle ==
  /\ mergeIn = NoMergeInput
  /\ devConfig = <<>>

\* ------------------------------------------------------------- compilers
CompilerNames == {Undef, "server", "client"}
TargetNames == {"web", "node", "es5"}
RECURSIVE SeqsUpTo(_, _)
SeqsUpTo(S, n) ==
  IF n = 0 THEN {<<>>}
  ELSE LET shorter == SeqsUpTo(S, n - 1)
       IN shorter \cup {Append(q, x) : q \in shorter, x \in S}
\* options.target: absent, false, a string or a list of strings
Targets ==
  {[kind |-> "absent", s |-> "", items |-> <<>>],
   [kind |-> "false", s |-> "", items |-> <<>>]} \cup
  {[kind |-> "string", s |-> x, items |-> <<>>] : x \in TargetNames \cup {""}}
  \cup {[kind |-> "array", s |-> "", items |-> q] :
          q \in SeqsUpTo(TargetNames, MaxTargets)}
Compilers == [name : CompilerNames, target : Targets]
Events == {"compile", "invalid", "done"}
StatsValues == {"stats1", "stats2"}
NoTaps == [e \in Events |-> <<>>]

\* no compiler is set up
CompIdle ==
  /\ compiler = [name |-> Undef,
                 target |-> [kind |-> "absent", s |-> "", items |-> <<>>]]
  /\ taps = NoTaps
  /\ calls = <<>>
  /\ setups = 0
  /\ fired = <<>>
  /\ clientResult = <<>>

UtilIdle == MergeIdle /\ CompIdle

\* the state of the CLI before a command handler runs
CliIdle ==
  /\ proc = "idle"
  /\ command = Undef
  /\ commonOpts = EmptyOpts
  /\ cliOpts = <<>>
  /\ disk \in DiskType
  /\ watched = {}
  /\ cleaners = <<>>
  /\ logged = <<>>
  /\ lastInit = NoInit
  /\ lastOp = <<>>
  /\ serverUp = FALSE
  /\ restarts = 0

\* ------------------------------------------------------------------- Init
ArgsType == [cfgPort : {0, MaxPort}, cfgHost : {Undef} \cup Hosts,
             soHost : {Undef} \cup Hosts, soHttps : BOOLEAN,
             printURLs : PrintURLsOpts, strictPort : BOOLEAN,
             open : {Undef}]
NoArgs == [cfgPort |-> 0, cfgHost |-> Undef, soHost |-> Undef,
           soHttps |-> FALSE, printURLs |-> "true", strictPort |-> FALSE,
           open |-> Undef]

Init ==
  /\ pc = "idle"
  /\ nodeEnv \in {"", "production"}
  /\ occupied \in SUBSET Ports
  /\ hooks \in [before : 0 .. MaxCallbacks, after : 0 .. MaxCallbacks]
  /\ args = NoArgs
  /\ hookIdx = 0
  /\ port = 0
  /\ ctxDevServer = <<>>
  /\ urls = Array(<<>>)
  /\ server = Undef
  /\ urlArgs = <<>>
  /\ factoryArgs = <<>>
  /\ listenArgs = <<>>
  /\ afterPayload = <<>>
  /\ printed = <<>>
  /\ promise = Pending
  /\ unhandled = <<>>
  /\ log = <<>>
  /\ CliIdle
  /\ disk.envFiles = {".env"} /\ disk.hasConfig
  /\ disk.content = NoConfig
  /\ UtilIdle

\* -------------------------------------------------------- startDevServer
NodeEnvOverwritten(env) == "development"

\* devServer.ts 122-124: if (!process.env.NODE_ENV) NODE_ENV = 'development'
EnsureNodeEnv(env) == IF env = "" THEN "development" ELSE env

StartDevServerWritesContextFirst(a) ==
  /\ pc = "idle"
  /\ UNCHANGED <<cliVars, utilVars, urlArgs, factoryArgs>>
  /\ args' = a
  /\ nodeEnv' = EnsureNodeEnv(nodeEnv)
  /\ ctxDevServer' = <<[hostname |-> IF a.soHost # Undef THEN a.soHost
                                     ELSE DEFAULT_DEV_HOST,
                        port |-> a.cfgPort, https |-> a.soHttps,
                        open |-> a.open]>>
  /\ log' = Append(log, "getPort")
  /\ pc' = "awaitGetPort"
  /\ UNCHANGED <<occupied, hooks, hookIdx, port, urls, server, listenArgs,
                 afterPayload, printed, promise, unhandled>>

\* devServer.ts 96-131: set NODE_ENV, call getPort and await it
StartDevServer(a) ==
  /\ pc = "idle"
  /\ UNCHANGED <<cliVars, utilVars, urlArgs, factoryArgs>>
  /\ args' = a
  /\ nodeEnv' = EnsureNodeEnv(nodeEnv)
  /\ log' = Append(log, "getPort")
  /\ pc' = "awaitGetPort"
  /\ UNCHANGED <<occupied, hooks, hookIdx, port, ctxDevServer, urls, server,
                 listenArgs, afterPayload, printed, promise, unhandled>>

\* a throw or a rejected await in the body of the async function: the run
\* ends with the returned promise rejected with that failure
Reject(e) ==
  /\ promise' = Rejected(e)
  /\ log' = Append(log, e)
  /\ pc' = "done"

\* devServer.ts 128: rsbuildConfig.dev?.port || DEFAULT_PORT
RequestedPort(a) == IF a.cfgPort # 0 THEN a.cfgPort ELSE DEFAULT_PORT

\* devServer.ts 133-136: const host
ListenHost(a) == IF a.soHost # Undef THEN a.soHost ELSE DEFAULT_DEV_HOST

\* devServer.ts 151: the host getAddressUrls is given
UrlHost(a) == a.cfgHost

FactoryPortRequested(a, p) == IF a.cfgPort # 0 THEN a.cfgPort ELSE DEFAULT_PORT

\* devServer.ts 165: the port createDevServer is given
FactoryPort(a, p) == p

\* devServer.ts 150: const protocol
Protocol(a) == IF a.soHttps THEN "https" ELSE "http"

TransformUrlsIgnored(printURLs, computed) == Array(computed)

\* devServer.ts 153-156: urls = printURLs(urls) when printURLs is a function
TransformUrls(printURLs, computed) ==
  IF printURLs # "false" /\ isFunction(printURLs)
  THEN CallPrintURLs(printURLs, computed)
  ELSE Array(computed)

StartResultNoServer(p, list, srv) ==
  [port |-> p, urls |-> UrlsOf(list), server |-> Undef]

\* devServer.ts 186-190: the value the promise is resolved with
StartResult(p, list, srv) ==
  [port |-> p, urls |-> UrlsOf(list), server |-> srv]

\* devServer.ts 128: getPort rejects, and so does startDevServer
GetPortRejected ==
  /\ pc = "awaitGetPort"
  /\ UNCHANGED <<cliVars, utilVars, urlArgs, factoryArgs>>
  /\ getPort(RequestedPort(args), args.strictPort, occupied) = 0
  /\ Reject("getPort.rejected")
  /\ UNCHANGED <<nodeEnv, occupied, args, hooks, hookIdx, port, ctxDevServer,
                 urls, server, listenArgs, afterPayload, printed, unhandled>>

\* devServer.ts 133-165: host, https, context.devServer, the urls and their
\* printing, then the call of createDevServer
GetPortResolved ==
  /\ pc = "awaitGetPort"
  /\ UNCHANGED <<cliVars, utilVars>>
  /\ LET p == getPort(RequestedPort(args), args.strictPort, occupied)
         computed == getAddressUrls(Protocol(args), p, UrlHost(args))
         u == TransformUrls(args.printURLs, computed)
     IN /\ p # 0
        /\ port' = p
        /\ ctxDevServer' = <<[hostname |-> ListenHost(args), port |-> p,
                              https |-> args.soHttps, open |-> args.open]>>
        /\ urlArgs' = Append(urlArgs, [protocol |-> Protocol(args),
                                       port |-> p, host |-> UrlHost(args)])
        /\ urls' = u
        /\ IF ~IsArray(u)
           THEN /\ promise' = Rejected("printURLs.throw")
                /\ log' = log \o <<"getPort.done", "printURLs.throw">>
                /\ pc' = "done"
                /\ UNCHANGED <<printed, factoryArgs>>
           ELSE /\ printed' = IF args.printURLs # "false"
                              THEN Append(printed, printServerURLs(u.items))
                              ELSE printed
                /\ factoryArgs' = Append(factoryArgs,
                                         [port |-> FactoryPort(args, p)])
                /\ log' = log \o <<"getPort.done", "createDevServer">>
                /\ pc' = "awaitFactory"
                /\ UNCHANGED promise
  /\ UNCHANGED <<nodeEnv, occupied, args, hooks, hookIdx, server, listenArgs,
                 afterPayload, unhandled>>

\* devServer.ts 165: createDevServer rejects, and so does startDevServer
FactoryRejected ==
  /\ pc = "awaitFactory"
  /\ UNCHANGED <<cliVars, utilVars, urlArgs, factoryArgs>>
  /\ Reject("createDevServer.rejected")
  /\ UNCHANGED <<nodeEnv, occupied, args, hooks, hookIdx, port, ctxDevServer,
                 urls, server, listenArgs, afterPayload, printed, unhandled>>

FactoryResolvedHookNotAwaited(srv) ==
  /\ pc = "awaitFactory"
  /\ UNCHANGED <<cliVars, utilVars, urlArgs, factoryArgs>>
  /\ server' = srv
  /\ hookIdx' = 0
  /\ log' = log \o <<"createDevServer.done", "beforeStart.call", "init">>
  /\ pc' = "awaitInit"
  /\ UNCHANGED <<nodeEnv, occupied, args, hooks, port, ctxDevServer, urls,
                 listenArgs, afterPayload, printed, promise, unhandled>>

\* devServer.ts 165-167: createDevServer resolves with the server, then
\* onBeforeStartDevServerHook.call() is made and awaited
FactoryResolved(srv) ==
  /\ pc = "awaitFactory"
  /\ UNCHANGED <<cliVars, utilVars, urlArgs, factoryArgs>>
  /\ server' = srv
  /\ hookIdx' = 0
  /\ log' = log \o <<"createDevServer.done", "beforeStart.call">>
  /\ pc' = "beforeHook"
  /\ UNCHANGED <<nodeEnv, occupied, args, hooks, port, ctxDevServer, urls,
                 listenArgs, afterPayload, printed, promise, unhandled>>

\* createHook.ts call: the next registered callback runs and resolves
BeforeCallback ==
  /\ pc = "beforeHook"
  /\ UNCHANGED <<cliVars, utilVars, urlArgs, factoryArgs>>
  /\ hookIdx < hooks.before
  /\ hookIdx' = hookIdx + 1
  /\ log' = Append(log, "beforeStart.callback")
  /\ UNCHANGED <<pc, nodeEnv, occupied, args, hooks, port, ctxDevServer, urls,
                 server, listenArgs, afterPayload, printed, promise,
                 unhandled>>

\* createHook.ts call: the next registered callback rejects, the call
\* rejects without running the rest, and so does startDevServer (167)
BeforeCallbackRejected ==
  /\ pc = "beforeHook"
  /\ UNCHANGED <<cliVars, utilVars, urlArgs, factoryArgs>>
  /\ hookIdx < hooks.before
  /\ Reject("beforeStart.rejected")
  /\ UNCHANGED <<nodeEnv, occupied, args, hooks, hookIdx, port, ctxDevServer,
                 urls, server, listenArgs, afterPayload, printed, unhandled>>

BeforeHookDoneInitNotAwaited ==
  /\ pc = "beforeHook"
  /\ UNCHANGED <<cliVars, utilVars, urlArgs, factoryArgs>>
  /\ hookIdx = hooks.before
  /\ listenArgs' = Append(listenArgs,
                     [host |-> ListenHost(args), port |-> port])
  /\ log' = log \o <<"beforeStart.done", "init", "listen">>
  /\ pc' = "awaitListen"
  /\ UNCHANGED <<nodeEnv, occupied, args, hooks, hookIdx, port, ctxDevServer,
                 urls, server, afterPayload, printed, promise, unhandled>>

\* devServer.ts 167-170: the hook call resolved; server.init() is called
BeforeHookDone ==
  /\ pc = "beforeHook"
  /\ UNCHANGED <<cliVars, utilVars, urlArgs, factoryArgs>>
  /\ hookIdx = hooks.before
  /\ log' = log \o <<"beforeStart.done", "init">>
  /\ pc' = "awaitInit"
  /\ UNCHANGED <<nodeEnv, occupied, args, hooks, hookIdx, port, ctxDevServer,
                 urls, server, listenArgs, afterPayload, printed, promise,
                 unhandled>>

\* devServer.ts 170: server.init() rejects, and so does startDevServer
InitRejected ==
  /\ pc = "awaitInit"
  /\ UNCHANGED <<cliVars, utilVars, urlArgs, factoryArgs>>
  /\ Reject("init.rejected")
  /\ UNCHANGED <<nodeEnv, occupied, args, hooks, hookIdx, port, ctxDevServer,
                 urls, server, listenArgs, afterPayload, printed, unhandled>>

\* devServer.ts 170-177: init resolved; the promise is created and
\* server.listen({host, port}, callback) is called inside its executor
InitResolved ==
  /\ pc = "awaitInit"
  /\ UNCHANGED <<cliVars, utilVars, urlArgs, factoryArgs>>
  /\ listenArgs' = Append(listenArgs,
                     [host |-> ListenHost(args), port |-> port])
  /\ log' = log \o <<"init.done", "listen">>
  /\ pc' = "awaitListen"
  /\ UNCHANGED <<nodeEnv, occupied, args, hooks, hookIdx, port, ctxDevServer,
                 urls, server, afterPayload, printed, promise, unhandled>>

\* devServer.ts 178-185: the listen callback.  With an error it throws: the
\* callback is an async function, so the throw rejects the callback's own
\* promise, which nobody holds; the executor was given no reject.  Without
\* an error, onAfterStartDevServerHook.call({port}) is made and awaited.
ErrIgnored(err) == FALSE

\* devServer.ts 179: if (err)
ErrCheck(err) == err

ListenCallback(err) ==
  /\ pc = "awaitListen"
  /\ UNCHANGED <<cliVars, utilVars, urlArgs, factoryArgs>>
  /\ IF ErrCheck(err)
     THEN /\ unhandled' = Append(unhandled, "listen.error")
          /\ log' = Append(log, "listen.error")
          /\ pc' = "done"
          /\ UNCHANGED <<hookIdx, afterPayload>>
     ELSE /\ afterPayload' = Append(afterPayload, [port |-> port])
          /\ hookIdx' = 0
          /\ log' = log \o <<IF err THEN "listen.error" ELSE "listen.done",
                              "afterStart.call">>
          /\ pc' = "afterHook"
          /\ UNCHANGED unhandled
  /\ UNCHANGED <<nodeEnv, occupied, args, hooks, port, ctxDevServer, urls,
                 server, listenArgs, printed, promise>>

\* createHook.ts call: the next registered callback runs and resolves
AfterCallback ==
  /\ pc = "afterHook"
  /\ UNCHANGED <<cliVars, utilVars, urlArgs, factoryArgs>>
  /\ hookIdx < hooks.after
  /\ hookIdx' = hookIdx + 1
  /\ log' = Append(log, "afterStart.callback")
  /\ UNCHANGED <<pc, nodeEnv, occupied, args, hooks, port, ctxDevServer, urls,
                 server, listenArgs, afterPayload, printed, promise,
                 unhandled>>

\* devServer.ts 185: a callback of the after-start hook rejects; the await
\* throws inside the async listen callback, whose promise nobody holds
AfterCallbackRejected ==
  /\ pc = "afterHook"
  /\ UNCHANGED <<cliVars, utilVars, urlArgs, factoryArgs>>
  /\ hookIdx < hooks.after
  /\ unhandled' = Append(unhandled, "afterStart.rejected")
  /\ log' = Append(log, "afterStart.rejected")
  /\ pc' = "done"
  /\ UNCHANGED <<nodeEnv, occupied, args, hooks, hookIdx, port, ctxDevServer,
                 urls, server, listenArgs, afterPayload, printed, promise>>

\* devServer.ts 185-190: the hook call resolved; resolve({port, urls, server})
AfterHookDone ==
  /\ pc = "afterHook"
  /\ UNCHANGED <<cliVars, utilVars, urlArgs, factoryArgs>>
  /\ hookIdx = hooks.after
  /\ promise' = Resolved(StartResult(port, urls.items, server))
  /\ log' = log \o <<"afterStart.done", "resolve">>
  /\ pc' = "done"
  /\ UNCHANGED <<nodeEnv, occupied, args, hooks, hookIdx, port, ctxDevServer,
                 urls, server, listenArgs, afterPayload, printed, unhandled>>

Next ==
  \/ \E a \in ArgsType : StartDevServer(a)
  \/ GetPortRejected
  \/ GetPortResolved
  \/ FactoryRejected
  \/ \E srv \in Servers : FactoryResolved(srv)
  \/ BeforeCallback
  \/ BeforeCallbackRejected
  \/ BeforeHookDone
  \/ InitRejected
  \/ InitResolved
  \/ \E err \in BOOLEAN : ListenCallback(err)
  \/ AfterCallback
  \/ AfterCallbackRejected
  \/ AfterHookDone

Spec == Init /\ [][Next]_vars

\* ------------------------------------------------------------------- init
\* loadEnv.ts loadEnv: the env files read for the mode and the public
\* variables they define (a mode's file overrides .env)
loadEnv(mode, dsk) ==
  LET wanted == {".env"} \cup (IF mode # Undef THEN {".env.staging"} ELSE {})
      read == wanted \cap dsk.envFiles
  IN [filePaths |-> read,
      publicVars |-> IF ".env.staging" \in read THEN "fromEnvStaging"
                     ELSE IF ".env" \in read THEN "fromEnv" ELSE Undef]

\* cli/config.ts loadConfig: the config file at the given path, else the
\* default one when it exists, else an empty config and no path
loadConfig(path, envMode, dsk) ==
  IF path # Undef THEN [content |-> dsk.content, filePath |-> path]
  ELSE IF dsk.hasConfig
       THEN [content |-> dsk.content, filePath |-> "rsbuild.config.ts"]
       ELSE [content |-> NoConfig, filePath |-> Undef]

\* shared isDev()
isDev == nodeEnv = "development"

SetCommonOptsAlways(cliOptions, old) ==
  IF cliOptions # <<>> THEN cliOptions[1] ELSE EmptyOpts

\* commands.ts 41-43: if (cliOptions) commonOpts = cliOptions
SetCommonOpts(cliOptions, old) ==
  IF cliOptions # <<>> THEN cliOptions[1] ELSE old

CatchAlwaysLogs(isRestart) == "undefined"

CatchAlwaysThrows(isRestart) == "threw"

\* commands.ts 99-105: the catch block logs on a restart, rethrows otherwise
Catch(isRestart) == IF isRestart THEN "undefined" ELSE "threw"

ApplyOverridesFileFirst(content, publicVars, co) ==
  [define |-> IF content.define # Undef THEN content.define ELSE publicVars,
   startUrl |-> IF co.open # Undef /\ content.startUrl = Undef
                THEN co.open ELSE content.startUrl,
   host |-> IF content.host # Undef THEN content.host ELSE co.host,
   port |-> IF content.port # 0 THEN content.port ELSE co.port]

\* commands.ts 74-93: source.define and the open / host / port overrides
ApplyOverrides(content, publicVars, co) ==
  [define |-> IF content.define # Undef THEN content.define ELSE publicVars,
   startUrl |-> IF co.open # Undef /\ content.startUrl = Undef
                THEN co.open ELSE content.startUrl,
   host |-> IF co.host # Undef THEN co.host ELSE content.host,
   port |-> IF co.port # 0 THEN co.port ELSE content.port]

\* commands.ts 34-106 init: everything one call does, as a record of its
\* effects.  fail names the call that throws (or rejects) in this run.
init(cliOptions, isRestart, fail, old, dsk, cmd) ==
  LET co == SetCommonOpts(cliOptions, old)
      mode == IF cliOptions # <<>> THEN cliOptions[1].envMode ELSE Undef
      envs == loadEnv(mode, dsk)
      gotEnv == fail # "loadEnv"
      cfg == loadConfig(co.config, co.envMode, dsk)
      gotCfg == gotEnv /\ fail # "loadConfig"
      files == envs.filePaths \cup
               (IF cfg.filePath # Undef THEN {cfg.filePath} ELSE {})
      callsWatch == gotCfg /\ cmd = "dev"
      didWatch == callsWatch /\ fail # "watchFiles"
      failed == \/ fail \in {"loadEnv", "loadConfig", "createRsbuild"}
                \/ (fail = "watchFiles" /\ callsWatch)
      result == IF failed THEN Catch(isRestart) ELSE "rsbuild"
  IN [commonOpts |-> co,
      loadEnvMode |-> <<mode>>,
      cleaners |-> IF gotEnv /\ isDev THEN <<"envs.cleanup">> ELSE <<>>,
      loadConfigArgs |-> IF gotEnv
                         THEN <<[path |-> co.config, envMode |-> co.envMode]>>
                         ELSE <<>>,
      watch |-> IF didWatch THEN <<files>> ELSE <<>>,
      logged |-> IF failed /\ result = "undefined" THEN <<fail>> ELSE <<>>,
      failed |-> failed,
      outcome |-> result,
      rsbuildConfig |-> IF failed THEN NoConfig
                        ELSE ApplyOverrides(cfg.content, envs.publicVars, co)]

\* the record kept of one call of init
InitRecord(cliOptions, isRestart, fail, r) ==
  [called |-> TRUE, cliGiven |-> cliOptions # <<>>, isRestart |-> isRestart,
   fail |-> IF r.failed THEN fail ELSE "none", outcome |-> r.outcome,
   loadEnvMode |-> r.loadEnvMode, loadConfigArgs |-> r.loadConfigArgs,
   rsbuildConfig |-> r.rsbuildConfig]

\* cli/config.ts watchFiles: the watcher watches the paths it is given
watchFiles(old, call) == IF call # <<>> /\ call[1] # {} THEN call[1] ELSE old

\* the first line a command's catch block logs (commands.ts 148, 164, 186,
\* 207)
FailedMessage(cmd) ==
  CASE cmd = "dev" -> "Failed to start dev server."
    [] cmd = "build" -> "Failed to build."
    [] cmd = "preview" -> "Failed to start preview server."
    [] cmd = "inspect" -> "Failed to inspect config."

\* how the promise of a command's operation ends.  build, preview and
\* inspectConfig resolve or reject.  startDevServer (devServer.ts 172-193)
\* has a third end: when listen reports an error or an after-start
\* callback rejects, the throw is inside the async listen callback, the
\* promise the handler awaits stays pending and the error is an unhandled
\* rejection of the process.
OpOutcomes(cmd) ==
  {"resolved", "rejected"} \cup (IF cmd = "dev" THEN {"unhandled"} ELSE {})

\* commands.ts 141-211: the action of one command: init({cliOptions}), then
\* the command's operation; a failure the catch block receives is logged
\* and the process exits 1.
\* op: how the operation (startDevServer, build, preview, inspectConfig)
\* ends; distExists: existsSync(rsbuild.context.distPath), for preview.
RunCommand(cmd, options, fail, op, distExists) ==
  /\ proc = "idle"
  /\ op \in OpOutcomes(cmd)
  /\ \E r \in {init(<<options>>, FALSE, fail, commonOpts, disk, cmd)} :
     LET rsbuild == r.outcome = "rsbuild"
         err == IF r.outcome = "threw" THEN <<fail>>
                ELSE IF rsbuild /\ cmd = "preview" /\ ~distExists
                     THEN <<"no output dir">>
                ELSE IF rsbuild /\ op = "rejected" THEN <<"operation">>
                ELSE <<>>
         uncaught == err = <<>> /\ rsbuild /\ op = "unhandled"
     IN /\ command' = cmd
        /\ cliOpts' = <<options>>
        /\ commonOpts' = r.commonOpts
        /\ cleaners' = cleaners \o r.cleaners
        /\ watched' = watchFiles(watched, r.watch)
        /\ lastInit' = InitRecord(<<options>>, FALSE, fail, r)
        /\ lastOp' = <<[op |-> op, distExists |-> distExists]>>
        /\ logged' = logged \o r.logged \o
                     (IF err # <<>> THEN <<FailedMessage(cmd)>> \o err
                      ELSE <<>>)
        /\ proc' = IF err # <<>> THEN "exited"
                   ELSE IF uncaught THEN "crashed" ELSE "running"
        /\ serverUp' = (cmd = "dev" /\ rsbuild /\ err = <<>> /\ ~uncaught)
  /\ UNCHANGED <<disk, restarts>>
  /\ UNCHANGED <<devVars, utilVars>>

\* cli/config.ts, server/restart.ts: a watched file changes (content is what
\* the config file holds afterwards); the registered before-restart
\* callbacks run, then init({isRestart: true}) and, when it returned an
\* instance, startDevServer.  A throw of init would end the process; the
\* watcher itself stays until watchFiles is called again.
Restart(file, content, fail) ==
  /\ proc = "running"
  /\ file \in watched
  /\ file \notin ConfigPaths => content = disk.content
  /\ restarts < MaxRestarts
  /\ \E r \in {init(<<>>, TRUE, fail, commonOpts,
                    [disk EXCEPT !.content = content], command)} :
        /\ disk' = [disk EXCEPT !.content = content]
        /\ commonOpts' = r.commonOpts
        /\ cleaners' = r.cleaners
        /\ watched' = watchFiles(watched, r.watch)
        /\ lastInit' = InitRecord(<<>>, TRUE, fail, r)
        /\ logged' = logged \o r.logged
        /\ proc' = IF r.outcome = "threw" THEN "crashed" ELSE "running"
        /\ serverUp' = (r.outcome = "rsbuild")
  /\ restarts' = restarts + 1
  /\ UNCHANGED <<command, cliOpts, lastOp>>
  /\ UNCHANGED <<devVars, utilVars>>

\* the state before runCli: no run of startDevServer is modelled
InitCli ==
  /\ pc = "idle"
  /\ nodeEnv \in {"development", "production"}
  /\ occupied = {}
  /\ hooks = [before |-> 0, after |-> 0]
  /\ args = NoArgs
  /\ hookIdx = 0
  /\ port = 0
  /\ ctxDevServer = <<>>
  /\ urls = Array(<<>>)
  /\ server = Undef
  /\ urlArgs = <<>>
  /\ factoryArgs = <<>>
  /\ listenArgs = <<>>
  /\ afterPayload = <<>>
  /\ printed = <<>>
  /\ promise = Pending
  /\ unhandled = <<>>
  /\ log = <<>>
  /\ CliIdle
  /\ UtilIdle

NextCli ==
  \/ \E cmd \in Commands, options \in CliOptsType, fail \in InitFailures,
        distExists \in BOOLEAN :
       \E op \in OpOutcomes(cmd) :
         RunCommand(cmd, options, fail, op, distExists)
  \/ \E file \in watched, content \in ConfigContents,
        fail \in InitFailures :
       Restart(file, content, fail)

SpecInit == InitCli /\ [][NextCli]_vars

\* ---------------------------------------------------- SpecMerge
\* the state in which nothing but getDevServerOptions is called
DevIdle ==
  /\ pc = "idle"
  /\ nodeEnv = ""
  /\ occupied = {}
  /\ hooks = [before |-> 0, after |-> 0]
  /\ args = NoArgs
  /\ hookIdx = 0
  /\ port = 0
  /\ ctxDevServer = <<>>
  /\ urls = Array(<<>>)
  /\ server = Undef
  /\ urlArgs = <<>>
  /\ factoryArgs = <<>>
  /\ listenArgs = <<>>
  /\ afterPayload = <<>>
  /\ printed = <<>>
  /\ promise = Pending
  /\ unhandled = <<>>
  /\ log = <<>>

InitMerge ==
  /\ DevIdle
  /\ CliIdle
  /\ disk.envFiles = {".env"} /\ disk.hasConfig
  /\ disk.content = NoConfig
  /\ mergeIn \in MergeInputs
  /\ devConfig = <<>>
  /\ CompIdle

\* devServer.ts 45-81: one call of getDevServerOptions
GetDevServerOptions ==
  /\ devConfig = <<>>
  /\ devConfig' = <<getDevServerOptions(mergeIn, mergeIn.serverDev,
                                        mergeIn.port)>>
  /\ UNCHANGED <<mergeIn, compVars, devVars, cliVars>>

NextMerge == GetDevServerOptions

SpecMerge == InitMerge /\ [][NextMerge]_vars

\* ------------------------------------------------------- SpecCompiler
TapsNoExemption(c, t) ==
  [e \in Events |->
     Append(t[e], [name |-> "modern-dev-server",
                   fn |-> IF e = "done" THEN "onDone" ELSE "onInvalid"])]

\* devServer.ts 201-221 setupServerHooks: compiler.hooks after the call
setupServerHooks(c, t) ==
  IF c.name = "server" THEN t
  ELSE [e \in Events |->
          Append(t[e], [name |-> "modern-dev-server",
                        fn |-> IF e = "done" THEN "onDone" ELSE "onInvalid"])]

\* a tapped callback called for an event: onInvalid takes no argument,
\* onDone the stats
Invoke(tap, stats) ==
  [fn |-> tap.fn, arg |-> IF tap.fn = "onDone" THEN stats ELSE Undef]

RECURSIVE Includes(_, _)
Includes(q, x) ==
  IF q = <<>> THEN FALSE ELSE Head(q) = x \/ Includes(Tail(q), x)

\* if (target): absent, false and the empty string are falsy
Truthy(target) ==
  target.kind = "array" \/ (target.kind = "string" /\ target.s # "")

isClientCompilerFirstOnly(c) ==
  IF Truthy(c.target)
  THEN IF c.target.kind = "array"
       THEN c.target.items # <<>> /\ Head(c.target.items) = "web"
       ELSE c.target.s = "web"
  ELSE FALSE

\* devServer.ts 223-235 isClientCompiler
isClientCompiler(c) ==
  IF Truthy(c.target)
  THEN IF c.target.kind = "array"
       THEN Includes(c.target.items, "web")
       ELSE c.target.s = "web"
  ELSE FALSE

InitCompiler ==
  /\ DevIdle
  /\ CliIdle
  /\ disk.envFiles = {".env"} /\ disk.hasConfig
  /\ disk.content = NoConfig
  /\ MergeIdle
  /\ compiler \in Compilers
  /\ taps = NoTaps
  /\ calls = <<>>
  /\ setups = 0
  /\ fired = <<>>
  /\ clientResult = <<>>

\* devServer.ts 201-221: one call of setupServerHooks(compiler, callbacks)
SetupServerHooks ==
  /\ setups < MaxSetups
  /\ taps' = setupServerHooks(compiler, taps)
  /\ setups' = setups + 1
  /\ UNCHANGED <<compiler, calls, fired, clientResult>>
  /\ UNCHANGED <<mergeVars, devVars, cliVars>>

\* the compiler fires an event: every callback tapped on it is called
CompilerEvent(e, stats) ==
  /\ Len(fired) < MaxEvents
  /\ calls' = calls \o [i \in 1 .. Len(taps[e]) |-> Invoke(taps[e][i], stats)]
  /\ fired' = Append(fired, <<e, stats>>)
  /\ UNCHANGED <<compiler, taps, setups, clientResult>>
  /\ UNCHANGED <<mergeVars, devVars, cliVars>>

\* devServer.ts 223-235: one call of isClientCompiler(compiler)
IsClientCompiler ==
  /\ clientResult = <<>>
  /\ clientResult' = <<isClientCompiler(compiler)>>
  /\ UNCHANGED <<compiler, taps, calls, setups, fired>>
  /\ UNCHANGED <<mergeVars, devVars, cliVars>>

NextCompiler ==
  \/ SetupServerHooks
  \/ \E e \in Events, stats \in StatsValues : CompilerEvent(e, stats)
  \/ IsClientCompiler

SpecCompiler == InitCompiler /\ [][NextCompiler]_vars

\* ================================================================ claims
\* what one run must compute, from its arguments and the ports in use
ExpectedPort == getPort(RequestedPort(args), args.strictPort, occupied)
ComputedUrls == getAddressUrls(Protocol(args), ExpectedPort, UrlHost(args))
ExpectedUrls ==
  IF isFunction(args.printURLs)
  THEN CallPrintURLs(args.printURLs, ComputedUrls)
  ELSE Array(ComputedUrls)
RunEnded == pc = "done"

\* C1: every failure of a run (getPort, the server factory, the before-start
\* hook or server.init() rejecting, or the listen callback invoked with an
\* error) makes the promise startDevServer returned reject with that
\* failure: a run that ended after one of them has a rejected promise.
C1_FailureRejectsStart ==
  \A f \in {"getPort.rejected", "createDevServer.rejected",
            "beforeStart.rejected", "init.rejected", "listen.error"} :
    (RunEnded /\ Has(f)) => promise = Rejected(f)

\* C2: once the listen callback has reported a bind error, the after-start
\* hook has been called zero times and the start result is not resolved.
C2_BindErrorNoAfterStart ==
  Has("listen.error") =>
    /\ Count("afterStart.call") = 0
    /\ Count("afterStart.callback") = 0
    /\ afterPayload = <<>>
    /\ promise.state # "resolved"

C2_Witness == RunEnded /\ Has("listen.error") /\ hooks.after > 0

\* C3: a rejecting after-start callback makes the start attempt fail: a run
\* that ended after it has a rejected promise.
C3_AfterStartRejectionRejectsStart ==
  (RunEnded /\ Has("afterStart.rejected")) => promise.state = "rejected"

C5_SuccessfulRun ==
  promise.state = "resolved" =>
    /\ Count("beforeStart.call") = 1
    /\ Count("afterStart.call") = 1
    /\ Count("beforeStart.callback") = hooks.before
    /\ Count("afterStart.callback") = hooks.after
    /\ Idx("beforeStart.done") < Idx("afterStart.call")
    /\ afterPayload = <<[port |-> ExpectedPort]>>
    /\ promise.value = [port |-> ExpectedPort,
                        urls |-> UrlsOf(ExpectedUrls.items),
                        server |-> server]
    /\ server \in Servers

C5_Witness ==
  /\ promise.state = "resolved"
  /\ hooks.before > 0 /\ hooks.after > 0
  /\ ExpectedPort # RequestedPort(args)

\* C6: when getPort fails no partial server exists: the factory, both
\* hooks, server.init and server.listen were never called and
\* context.devServer was not written.
C6_GetPortFailureCreatesNothing ==
  Has("getPort.rejected") =>
    /\ \A e \in {"createDevServer", "beforeStart.call", "afterStart.call",
                 "init", "listen"} : ~Has(e)
    /\ server = Undef
    /\ listenArgs = <<>>
    /\ ctxDevServer = <<>>

C6_Witness == RunEnded /\ Has("getPort.rejected") /\ promise.state = "rejected"

\* C7: the value a printURLs function returns replaces the URL list that is
\* printed and returned; when it is not an array the run fails before the
\* factory is called and before any hook is invoked.
C7_PrintURLsTransform ==
  (isFunction(args.printURLs) /\ port # 0) =>
    IF IsArray(ExpectedUrls)
    THEN /\ printed = <<printServerURLs(ExpectedUrls.items)>>
         /\ promise.state = "resolved" =>
              promise.value.urls = UrlsOf(ExpectedUrls.items)
    ELSE /\ promise = Rejected("printURLs.throw")
         /\ RunEnded
         /\ printed = <<>>
         /\ \A e \in {"createDevServer", "beforeStart.call",
                      "afterStart.call"} : ~Has(e)

C7_Witness ==
  /\ args.printURLs = "fnNotArray"
  /\ promise = Rejected("printURLs.throw")

C7_WitnessReplaced ==
  /\ args.printURLs = "fnCustom"
  /\ promise.state = "resolved"
  /\ promise.value.urls # UrlsOf(ComputedUrls)

FailedInit == lastInit.called /\ lastInit.fail # "none"
LastLogged == IF logged = <<>> THEN Undef ELSE logged[Len(logged)]

C10_CommonOptsSetOnce ==
  IF cliOpts = <<>> THEN commonOpts = EmptyOpts
  ELSE commonOpts = cliOpts[1]

C10_Witness ==
  /\ restarts >= 2
  /\ logged # <<>>
  /\ lastInit.isRestart /\ lastInit.outcome = "rsbuild"
  /\ commonOpts.config # Undef /\ commonOpts.envMode # Undef

\* what the command's own call of init hands to createRsbuild for the files
\* now on disk
InitialCallOnDisk == init(cliOpts, FALSE, "none", EmptyOpts, disk, command)

\* C11: a restart reapplies the command-line options as the initial call
\* did: its loadEnv gets the original env mode, its loadConfig the original
\* config path and env mode, and for the same files on disk the resulting
\* configuration is the one the initial call yields.
C11_RestartReappliesCliOptions ==
  (lastInit.called /\ lastInit.isRestart) =>
    /\ lastInit.loadEnvMode = <<cliOpts[1].envMode>>
    /\ \A a \in {lastInit.loadConfigArgs[i] :
                   i \in 1 .. Len(lastInit.loadConfigArgs)} :
         a = [path |-> cliOpts[1].config, envMode |-> cliOpts[1].envMode]
    /\ lastInit.outcome = "rsbuild" =>
         lastInit.rsbuildConfig = InitialCallOnDisk.rsbuildConfig

\* the value at a path of keys, Absent when a key on the way is missing
Absent == Leaf("absent", "")
RECURSIVE Get(_, _)
Get(x, path) ==
  IF path = <<>> THEN x
  ELSE IF Head(path) \in Keys(x) THEN Get(x.f[Head(path)], Tail(path))
       ELSE Absent
\* what reading the path yields: undefined for a missing key
Read(x, path) == IF Get(x, path) = Absent THEN Undefined ELSE Get(x, path)
Defined(x, path) == Read(x, path) # Undefined
LeafPaths == {<<"hot">>, <<"watch">>, <<"client", "port">>,
              <<"client", "host">>, <<"port">>, <<"liveReload">>,
              <<"devMiddleware", "writeToDisk">>, <<"https">>}
TierD == DefaultDevConfig(mergeIn, mergeIn.port)
TierO == mergeIn.serverDev
TierT == mergeIn.toolsDevServer

\* C12: every leaf of the resolved devConfig has the value of the highest
\* tier that defines it: tools.devServer, else serverOptions.dev, else the
\* built-in defaults; an undefined value in an override does not replace a
\* defined value of a lower tier.
C12_MergePrecedence ==
  devConfig # <<>> =>
    \A p \in LeafPaths :
      Read(devConfig[1], p) =
        IF Defined(TierT, p) THEN Read(TierT, p)
        ELSE IF Defined(TierO, p) THEN Read(TierO, p)
        ELSE Read(TierD, p)

\* the callback setupServerHooks is to wire to an event
WiredTo(e) == IF e = "done" THEN "onDone" ELSE "onInvalid"

\* C13: on a compiler named "server" setupServerHooks taps nothing; on any
\* other compiler each call taps exactly one callback per event, onInvalid
\* on compile and invalid and onDone on done, so that every compile or
\* invalid event calls onInvalid and every done event calls onDone(stats),
\* once per call of setupServerHooks.
C13_ServerHooksWiring ==
  /\ [](IF compiler.name = "server"
        THEN taps = NoTaps /\ calls = <<>>
        ELSE \A e \in Events :
               /\ Len(taps[e]) = setups
               /\ \A i \in 1 .. Len(taps[e]) :
                    taps[e][i] = [name |-> "modern-dev-server",
                                  fn |-> WiredTo(e)])
  /\ [][Len(fired') = Len(fired) + 1 =>
          LET ev == fired'[Len(fired')]
              n == IF compiler.name = "server" THEN 0 ELSE setups
          IN calls' = calls \o
               [i \in 1 .. n |->
                  [fn |-> WiredTo(ev[1]),
                   arg |-> IF ev[1] = "done" THEN ev[2] ELSE Undef]]]_vars

C13_Witness ==
  /\ compiler.name = "client"
  /\ setups = 1
  /\ Len(fired) = 2 /\ fired[1][1] = "compile" /\ fired[2][1] = "done"
  /\ calls = <<[fn |-> "onInvalid", arg |-> Undef],
               [fn |-> "onDone", arg |-> fired[2][2]]>>

\* C16: isClientCompiler returns true exactly when the target is the string
\* 'web' or a list containing 'web'; false for any other target, an absent
\* one included.
C16_IsClientCompiler ==
  clientResult # <<>> =>
    clientResult[1] =
      (\/ compiler.target.kind = "string" /\ compiler.target.s = "web"
       \/ /\ compiler.target.kind = "array"
          /\ \E i \in 1 .. Len(compiler.target.items) :
               compiler.target.items[i] = "web")

C16_Witness ==
  /\ clientResult = <<TRUE>>
  /\ compiler.target.kind = "array"
  /\ Len(compiler.target.items) = 2
  /\ compiler.target.items[1] # "web"

\* the command the process ran met a failure: init threw, the output
\* directory of preview was missing, or the operation failed
CommandFailed ==
  \/ lastInit.outcome = "threw"
  \/ /\ lastInit.outcome = "rsbuild"
     /\ \/ command = "preview" /\ ~lastOp[1].distExists
        \/ lastOp[1].op # "resolved"

\* C14: whatever fails in a command (init, the missing output directory of
\* preview, or the command's operation), the failure is logged with
\* logger.error after the command's own message and the process exits with
\* status 1; the process never ends on an uncaught error.
C14_CommandFailureLoggedExit1 ==
  (lastOp # <<>> /\ restarts = 0) =>
    /\ proc # "crashed"
    /\ CommandFailed =>
         /\ proc = "exited"
         /\ Len(logged) >= 2
         /\ logged[Len(logged) - 1] = FailedMessage(command)

\* C15: startDevServer sets NODE_ENV to "development" at entry when it is
\* unset (empty); a NODE_ENV that has a value is changed by no step of the
\* run, whether the run succeeds or fails.
C15_NodeEnvSetOnlyWhenUnset ==
  [][/\ nodeEnv # "" => nodeEnv' = nodeEnv
     /\ (nodeEnv = "" /\ pc = "idle" /\ pc' # "idle")
          => nodeEnv' = "development"]_vars

C15_Witness ==
  /\ pc = "done"
  /\ nodeEnv = "production"
  /\ Has("init.rejected")

\* what the latest call of init read: the config file's content and the
\* public variables of the env files
FileConfig == loadConfig(commonOpts.config, commonOpts.envMode, disk).content
EnvPublicVars == loadEnv(lastInit.loadEnvMode[1], disk).publicVars

\* C18: in the configuration init hands to createRsbuild, server.host and
\* server.port are the CLI --host and --port values whenever those were
\* given, whatever the config file declares; dev.startUrl is the file's
\* value when the file declares one and the --open value otherwise; in
\* source.define a key the config file declares keeps the file's value, and
\* a key only the env files define keeps the env value.
C18_InitOverridePrecedence ==
  lastInit.outcome = "rsbuild" =>
    LET cfg == lastInit.rsbuildConfig
    IN /\ commonOpts.host # Undef => cfg.host = commonOpts.host
       /\ commonOpts.port # 0 => cfg.port = commonOpts.port
       /\ cfg.startUrl = IF FileConfig.startUrl # Undef
                         THEN FileConfig.startUrl ELSE commonOpts.open
       /\ cfg.define = IF FileConfig.define # Undef
                       THEN FileConfig.define ELSE EnvPublicVars

C18_Witness ==
  /\ lastInit.outcome = "rsbuild"
  /\ commonOpts.host # Undef /\ FileConfig.host # Undef
  /\ commonOpts.port # 0 /\ FileConfig.port # 0
  /\ commonOpts.open # Undef /\ FileConfig.startUrl # Undef
  /\ FileConfig.define # Undef /\ EnvPublicVars # Undef
  /\ lastInit.rsbuildConfig.port = 8080

\* the position of an event is before the position of another
Before(e1, e2) == Has(e1) /\ Has(e2) /\ Idx(e1) < Idx(e2)

\* C17: the steps of one run never overlap: getPort has resolved before
\* the server factory is called, server.init() has completed before
\* server.listen is called, the after-start hook is called only after the
\* listen callback reported success, and the promise resolves only after
\* the after-start hook call, with every registered callback, completed.
C17_LifecycleStepsInOrder ==
  /\ Has("createDevServer") =>
       /\ Before("getPort", "getPort.done")
       /\ Before("getPort.done", "createDevServer")
       /\ port # 0
  /\ Has("listen") =>
       /\ Before("init", "init.done")
       /\ Before("init.done", "listen")
  /\ Has("afterStart.call") =>
       /\ Before("listen", "listen.done")
       /\ Before("listen.done", "afterStart.call")
       /\ ~Has("listen.error")
  /\ Has("resolve") =>
       /\ Before("afterStart.call", "afterStart.done")
       /\ Before("afterStart.done", "resolve")
       /\ Count("afterStart.callback") = hooks.after
       /\ ~Has("afterStart.rejected")

C17_Witness ==
  /\ Has("resolve")
  /\ hooks.after = MaxCallbacks
  /\ Count("afterStart.callback") = MaxCallbacks
  /\ Count("beforeStart.callback") = hooks.before

\* C19: within one run getPort, the server factory, init and listen are each
\* called at most once, and the one port getPort resolved with is the port
\* stored in context.devServer.port, given to the factory, given to listen,
\* given to the after-start hook and returned in the result.
C19_PortResolvedOnce ==
  /\ \A e \in {"getPort", "createDevServer", "init", "listen"} : Count(e) <= 1
  /\ Len(factoryArgs) <= 1 /\ Len(listenArgs) <= 1 /\ Len(afterPayload) <= 1
  /\ Has("getPort.done") =>
       /\ port = ExpectedPort
       /\ ctxDevServer # <<>> /\ ctxDevServer[1].port = ExpectedPort
  /\ \A i \in 1 .. Len(factoryArgs) : factoryArgs[i].port = ExpectedPort
  /\ \A i \in 1 .. Len(listenArgs) : listenArgs[i].port = ExpectedPort
  /\ \A i \in 1 .. Len(afterPayload) : afterPayload[i].port = ExpectedPort
  /\ promise.state = "resolved" => promise.value.port = ExpectedPort

C19_Witness ==
  /\ promise.state = "resolved"
  /\ RequestedPort(args) \in occupied
  /\ promise.value.port = RequestedPort(args) + 1
  /\ factoryArgs = <<[port |-> promise.value.port]>>
  /\ afterPayload = <<[port |-> promise.value.port]>>

\* a host as the server and the URL computation read it: an absent host is
\* the default host
EffectiveHost(h) == IF h = Undef THEN DEFAULT_DEV_HOST ELSE h

\* C20: the host the URL computation is given is the host stored in
\* context.devServer.hostname and the host server.listen is given, whatever
\* rsbuildConfig.dev.host and serverOptions.dev.host are (an absent host
\* counting as the default host).
C20_UrlHostIsListenHost ==
  \A i \in 1 .. Len(urlArgs) :
    /\ ctxDevServer # <<>>
    /\ EffectiveHost(urlArgs[i].host) = ctxDevServer[1].hostname
    /\ \A j \in 1 .. Len(listenArgs) :
         EffectiveHost(urlArgs[i].host) = listenArgs[j].host

====
